---- MODULE Spec2Model ----
(***************************************************************************)
(* Model of WorkflowIterationCycleManage                                   *)
(* (api/core/app/task_pipeline/workflow_iteration_cycle_manage.py):        *)
(* the handlers of the iteration start / next / completed queue events,    *)
(* the in-memory iteration state and the WorkflowNodeExecution rows they   *)
(* write through db.session.                                               *)
(***************************************************************************)
EXTENDS Integers, Sequences, FiniteSets, TLC

VARIABLES
    iteration_state,   \* self._iteration_state: unset (None) or the table current_iterations
    executions,        \* the WorkflowNodeExecution rows, by id
    created,           \* number of rows ever inserted (the next id is created + 1)
    task_state,        \* self._task_state: ran_node_execution_infos, latest_node_execution_info
    perf_counter,      \* the value time.perf_counter() returns now
    call,              \* the last call made on the object: its arguments and its outcome
    handled,           \* number of events handled so far
    started,           \* history: the ids with a start event processed and no completed
                       \*          event processed since
    passed,            \* history: per id, the run indices of the next events passed in
                       \*          since the last start event processed for it
    pc                 \* the handler in progress and the statement it is at, or idle

vars == <<iteration_state, executions, created, task_state, perf_counter, call, handled, started,
          passed, pc>>

----------------------------------------------------------------------------
(* Bounds of the model *)

MaxEvents == 3        \* at most this many events are handled in a session
MaxClock == 1         \* time.perf_counter() ranges over 0..MaxClock

NodeIds == {"loop1", "loop2"}
RunIndices == {1, 2}
Indices == {0, 1}
OutputValues == {"ok", "none"}
ItemOutputs == {"item"}
TaskIds == {"task1", "task2"}
Timestamps == {0, 1}

----------------------------------------------------------------------------
(* Values *)

\* WorkflowNodeExecutionStatus
RUNNING == "running"
SUCCEEDED == "succeeded"

\* NodeType.ITERATION
ITERATION == "iteration"

\* the WorkflowRun row that the query of _handle_iteration_started returns
WorkflowRun ==
    [id |-> "run1", tenant_id |-> "tenant1", app_id |-> "app1",
     workflow_id |-> "workflow1", created_by_role |-> "account", created_by |-> "user1"]

\* an absent value (Python None) is the empty sequence, a present value v is <<v>>
Absent == << >>
Some(v) == <<v>>

\* the map with no key
EmptyMap == [k \in {} |-> Absent]

\* m with key k set to v (m[k] = v on a dict)
SetItem(m, k, v) == [x \in (DOMAIN m) \cup {k} |-> IF x = k THEN v ELSE m[x]]

\* m without key k (dict.pop(k, None))
Pop(m, k) == [x \in (DOMAIN m) \ {k} |-> m[x]]

\* the events of the queue
QueueIterationStartEvent ==
    [type : {"start"}, node_id : NodeIds, node_run_index : RunIndices]
QueueIterationNextEvent ==
    [type : {"next"}, node_id : NodeIds, index : Indices, node_run_index : RunIndices,
     output : ItemOutputs]
QueueIterationCompletedEvent ==
    [type : {"completed"}, node_id : NodeIds, outputs : OutputValues]

\* what db.session does during a handler: every operation succeeds, or one of
\* them raises; "run_not_found" is the query of the workflow run finding no row
StartFaults == {"none", "run_query", "run_not_found", "commit", "refresh"}
UpdateFaults == {"none", "query", "commit"}

----------------------------------------------------------------------------
(* The iteration state *)

\* _iteration_state = None
NoIterationState == [is_set |-> FALSE, current_iterations |-> EmptyMap]

\* mutant: the table is built anew whether or not there is one
InitIterationState_Reset(state) ==
    [is_set |-> TRUE, current_iterations |-> EmptyMap]

\* _init_iteration_state: build the table unless there is one
InitIterationState(state) ==
    IF ~state.is_set
    THEN [is_set |-> TRUE, current_iterations |-> EmptyMap]
    ELSE state

\* the keys of current_iterations
CurrentIds == DOMAIN iteration_state.current_iterations

\* the entry of node_id in the table
Entry(node_id) == iteration_state.current_iterations[node_id]

\* mutant: every entry is bound to the first row
StartedIteration_FirstRow(node_id, execution_id, now) ==
    [parent_iteration_id |-> Absent,
     iteration_id |-> node_id,
     current_index |-> 0,
     iteration_steps_boundary |-> << >>,
     node_execution_id |-> 1,
     started_at |-> now]

\* WorkflowIterationState.Data of _handle_iteration_started
StartedIteration(node_id, execution_id, now) ==
    [parent_iteration_id |-> Absent,
     iteration_id |-> node_id,
     current_index |-> 0,
     iteration_steps_boundary |-> << >>,
     node_execution_id |-> execution_id,
     started_at |-> now]

----------------------------------------------------------------------------
(* The WorkflowNodeExecution rows *)

\* mutant: started_run_index is the run index of the event, not the one after it
StartedMetadata_NoIncrement(node_run_index) ==
    [started_run_index |-> node_run_index,
     current_index |-> 0,
     steps_boundary |-> << >>]

\* execution_metadata written by _init_iteration_execution_from_workflow_run
StartedMetadata(node_run_index) ==
    [started_run_index |-> node_run_index + 1,
     current_index |-> 0,
     steps_boundary |-> << >>]

\* the row built by _init_iteration_execution_from_workflow_run
NewExecution(workflow_run, node_id, node_run_index) ==
    [tenant_id |-> workflow_run.tenant_id,
     app_id |-> workflow_run.app_id,
     workflow_id |-> workflow_run.workflow_id,
     workflow_run_id |-> workflow_run.id,
     index |-> node_run_index,
     node_id |-> node_id,
     node_type |-> ITERATION,
     title |-> node_id,
     status |-> RUNNING,
     created_by_role |-> workflow_run.created_by_role,
     created_by |-> workflow_run.created_by,
     execution_metadata |-> StartedMetadata(node_run_index),
     outputs |-> Absent,
     elapsed_time |-> Absent]

\* NodeExecutionInfo of _handle_iteration_started
NodeExecutionInfo(execution_id, now) ==
    [workflow_node_execution_id |-> execution_id,
     node_type |-> ITERATION,
     start_at |-> now]

\* the outcome of a call: what db.session did in it ("unused": no operation
\* ran; "ok"; "run_not_found" / "not_found": first() returned None; "error": an
\* operation raised), what it raised and what it returned
Raised(session, exception) ==
    [session |-> session, raised |-> Some(exception), returned |-> Absent]
Returned(session, value) ==
    [session |-> session, raised |-> Absent, returned |-> value]

\* no handler is in progress (step "left": the handler of event has been left)
Idle == [step |-> "idle", event |-> Absent]

\* one more event is taken from the queue and handled to the end of its handler
OneMoreEvent ==
    /\ pc.step = "idle"
    /\ handled < MaxEvents
    /\ handled' = handled + 1
    /\ UNCHANGED pc

\* mutant: the membership test always passes
InCurrentIterations_Always(state, node_id) == TRUE

\* event.node_id in self._iteration_state.current_iterations
InCurrentIterations(state, node_id) ==
    node_id \in DOMAIN state.current_iterations

----------------------------------------------------------------------------
(* _handle_iteration_started *)

\* mutant: the execution info is recorded before the row is created
StartedTaskState_Always(state, node_id, execution_id, now, has_returned) ==
    [state EXCEPT
        !.ran_node_execution_infos =
            SetItem(@, node_id, NodeExecutionInfo(execution_id, now)),
        !.latest_node_execution_info = Some(NodeExecutionInfo(execution_id, now))]

\* ran_node_execution_infos and latest_node_execution_info are set after
\* _init_iteration_execution_from_workflow_run has returned
StartedTaskState(state, node_id, execution_id, now, has_returned) ==
    IF has_returned
    THEN [state EXCEPT
             !.ran_node_execution_infos =
                 SetItem(@, node_id, NodeExecutionInfo(execution_id, now)),
             !.latest_node_execution_info = Some(NodeExecutionInfo(execution_id, now))]
    ELSE state

\* mutant: a start event for an id that is in the table keeps the entry it has
StartedTable_KeepExisting(state, node_id, execution_id, now, has_returned) ==
    IF has_returned /\ node_id \notin DOMAIN state.current_iterations
    THEN [state EXCEPT !.current_iterations =
             SetItem(@, node_id, StartedIteration(node_id, execution_id, now))]
    ELSE state

\* mutant: the entry is inserted before the row is created
StartedTable_Always(state, node_id, execution_id, now, has_returned) ==
    [state EXCEPT !.current_iterations =
        SetItem(@, node_id, StartedIteration(node_id, execution_id, now))]

\* current_iterations[event.node_id] is set after
\* _init_iteration_execution_from_workflow_run has returned
StartedTable(state, node_id, execution_id, now, has_returned) ==
    IF has_returned
    THEN [state EXCEPT !.current_iterations =
             SetItem(@, node_id, StartedIteration(node_id, execution_id, now))]
    ELSE state

HandleIterationStarted(event, fault) ==
    LET node_id == event.node_id
        state1 == InitIterationState(iteration_state)
        id == created + 1
        execution == NewExecution(WorkflowRun, node_id, event.node_run_index)
        \* db.session.commit() of the new row has returned
        committed == fault \in {"none", "refresh"}
        \* _init_iteration_execution_from_workflow_run has returned
        has_returned == fault = "none"
    IN  /\ OneMoreEvent
        /\ executions' = IF committed THEN SetItem(executions, id, execution) ELSE executions
        /\ created' = IF committed THEN id ELSE created
        /\ task_state' = StartedTaskState(task_state, node_id, id, perf_counter, has_returned)
        /\ iteration_state' = StartedTable(state1, node_id, id, perf_counter, has_returned)
        /\ call' = [op |-> "started", event |-> event] @@
                   (IF fault = "run_not_found"
                    THEN \* workflow_run is None, which has no attribute tenant_id
                         Raised("run_not_found", "AttributeError")
                    ELSE IF fault # "none"
                    THEN Raised("error", "StorageError")
                    ELSE Returned("ok", Some(id)))
        /\ started' = IF call'.raised = Absent THEN started \cup {node_id} ELSE started
        /\ passed' = IF call'.raised = Absent
                     THEN [passed EXCEPT ![node_id] = << >>]
                     ELSE passed
        /\ UNCHANGED perf_counter

----------------------------------------------------------------------------
(* _handle_iteration_next *)

\* mutant: the run index is put in front of iteration_steps_boundary
NextIteration_Prepend(current_iteration, event) ==
    [current_iteration EXCEPT
        !.current_index = event.index,
        !.iteration_steps_boundary = <<event.node_run_index>> \o @]

\* mutant: the entry is bound to the next row
NextIteration_Rebind(current_iteration, event) ==
    [current_iteration EXCEPT
        !.current_index = event.index,
        !.iteration_steps_boundary = Append(@, event.node_run_index),
        !.node_execution_id = @ + 1]

\* the entry after current_index = event.index and the append to
\* iteration_steps_boundary
NextIteration(current_iteration, event) ==
    [current_iteration EXCEPT
        !.current_index = event.index,
        !.iteration_steps_boundary = Append(@, event.node_run_index)]

\* mutant: steps_boundary holds the run index of this event only
NextMetadata_LastOnly(event, current_iteration) ==
    [started_run_index |-> event.node_run_index + 1,
     current_index |-> event.index,
     steps_boundary |-> <<event.node_run_index>>]

\* execution_metadata written by _handle_iteration_next
NextMetadata(event, current_iteration) ==
    [started_run_index |-> event.node_run_index + 1,
     current_index |-> event.index,
     steps_boundary |-> current_iteration.iteration_steps_boundary]

HandleIterationNext(event, fault) ==
    LET node_id == event.node_id
        this == [op |-> "next", event |-> event]
    IN  /\ OneMoreEvent
        /\ IF ~iteration_state.is_set
           THEN \* None has no attribute current_iterations
                /\ call' = this @@ Raised("unused", "AttributeError")
                /\ UNCHANGED <<iteration_state, executions>>
           ELSE IF ~InCurrentIterations(iteration_state, node_id)
           THEN /\ call' = this @@ Returned("unused", Absent)
                /\ UNCHANGED <<iteration_state, executions>>
           ELSE IF node_id \notin CurrentIds
           THEN \* current_iterations[event.node_id]
                /\ call' = this @@ Raised("unused", "KeyError")
                /\ UNCHANGED <<iteration_state, executions>>
           ELSE LET current_iteration ==
                        NextIteration(iteration_state.current_iterations[node_id], event)
                    id == current_iteration.node_execution_id
                    found == id \in DOMAIN executions
                    committed == fault = "none" /\ found
                IN  /\ iteration_state' =
                         [iteration_state EXCEPT !.current_iterations[node_id] =
                             current_iteration]
                    /\ executions' =
                         IF committed
                         THEN [executions EXCEPT ![id].execution_metadata =
                                  NextMetadata(event, current_iteration)]
                         ELSE executions
                    /\ call' = this @@
                         (IF fault = "query"
                          THEN Raised("error", "StorageError")
                          ELSE IF ~found
                          THEN \* first() returns None, which has no attribute
                               \* execution_metadata
                               Raised("not_found", "AttributeError")
                          ELSE IF fault = "commit"
                          THEN Raised("error", "StorageError")
                          ELSE Returned("ok", Absent))
        /\ passed' = IF node_id \in started
                     THEN [passed EXCEPT ![node_id] = Append(@, event.node_run_index)]
                     ELSE passed
        /\ UNCHANGED <<created, task_state, perf_counter, started>>

----------------------------------------------------------------------------
(* _handle_iteration_completed *)

\* mutant: elapsed_time is started_at minus the current time
CompletedExecution_Backwards(execution, event, current_iteration, now) ==
    [execution EXCEPT
        !.status = SUCCEEDED,
        !.outputs = Some([output |-> event.outputs]),
        !.elapsed_time = Some(current_iteration.started_at - now)]

\* the row after status, outputs and elapsed_time are set
CompletedExecution(execution, event, current_iteration, now) ==
    [execution EXCEPT
        !.status = SUCCEEDED,
        !.outputs = Some([output |-> event.outputs]),
        !.elapsed_time = Some(now - current_iteration.started_at)]

\* mutant: the entry is not removed
RemoveIteration_Keep(state, node_id) == state

\* current_iterations.pop(event.node_id, None)
RemoveIteration(state, node_id) ==
    [state EXCEPT !.current_iterations = Pop(@, node_id)]

\* mutant: the entry stays in the table after the row was committed
CompletedTable_Never(state, node_id, committed) == state

\* mutant: the entry is removed whether or not the row was found and committed
CompletedTable_Always(state, node_id, committed) ==
    RemoveIteration(state, node_id)

\* the entry is removed after db.session.commit() has returned
CompletedTable(state, node_id, committed) ==
    IF committed THEN RemoveIteration(state, node_id) ELSE state

HandleIterationCompleted(event, fault) ==
    LET node_id == event.node_id
        this == [op |-> "completed", event |-> event]
    IN  /\ OneMoreEvent
        /\ IF ~iteration_state.is_set
           THEN \* None has no attribute current_iterations
                /\ call' = this @@ Raised("unused", "AttributeError")
                /\ UNCHANGED <<iteration_state, executions>>
           ELSE IF ~InCurrentIterations(iteration_state, node_id)
           THEN /\ call' = this @@ Returned("unused", Absent)
                /\ UNCHANGED <<iteration_state, executions>>
           ELSE IF node_id \notin CurrentIds
           THEN \* current_iterations[event.node_id]
                /\ call' = this @@ Raised("unused", "KeyError")
                /\ UNCHANGED <<iteration_state, executions>>
           ELSE LET current_iteration == iteration_state.current_iterations[node_id]
                    id == current_iteration.node_execution_id
                    found == id \in DOMAIN executions
                    committed == fault = "none" /\ found
                IN  /\ executions' =
                         IF committed
                         THEN [executions EXCEPT ![id] =
                                  CompletedExecution(@, event, current_iteration,
                                                     perf_counter)]
                         ELSE executions
                    /\ iteration_state' = CompletedTable(iteration_state, node_id, committed)
                    /\ call' = this @@
                         (IF fault = "query"
                          THEN Raised("error", "StorageError")
                          ELSE IF ~found
                          THEN \* first() returns None, which has no attribute status
                               Raised("not_found", "AttributeError")
                          ELSE IF fault = "commit"
                          THEN Raised("error", "StorageError")
                          ELSE Returned("ok", Absent))
        /\ started' = IF call'.raised = Absent THEN started \ {node_id} ELSE started
        /\ passed' = IF call'.raised = Absent
                     THEN [passed EXCEPT ![node_id] = << >>]
                     ELSE passed
        /\ UNCHANGED <<created, task_state, perf_counter>>

----------------------------------------------------------------------------
(* _handle_iteration_to_stream_response *)

\* mutant: a completed event is answered with the response of a next event
ToStreamResponse_NextForCompleted(task_id, workflow_run_id, event, now) ==
    IF event.type = "start"
    THEN [response |-> "IterationNodeStartStreamResponse",
          task_id |-> task_id,
          workflow_run_id |-> workflow_run_id,
          data |-> [id |-> event.node_id, node_id |-> event.node_id,
                    created_at |-> now, extras |-> EmptyMap]]
    ELSE IF event.type = "next"
    THEN [response |-> "IterationNodeNextStreamResponse",
          task_id |-> task_id,
          workflow_run_id |-> workflow_run_id,
          data |-> [id |-> event.node_id, node_id |-> event.node_id,
                    index |-> event.index, output |-> event.output,
                    created_at |-> now, extras |-> EmptyMap]]
    ELSE [response |-> "IterationNodeNextStreamResponse",
          task_id |-> task_id,
          workflow_run_id |-> workflow_run_id,
          data |-> [id |-> event.node_id, node_id |-> event.node_id,
                    outputs |-> event.outputs,
                    created_at |-> now, extras |-> EmptyMap]]

\* the response built for an event; now is int(time.time())
ToStreamResponse(task_id, workflow_run_id, event, now) ==
    IF event.type = "start"
    THEN [response |-> "IterationNodeStartStreamResponse",
          task_id |-> task_id,
          workflow_run_id |-> workflow_run_id,
          data |-> [id |-> event.node_id, node_id |-> event.node_id,
                    created_at |-> now, extras |-> EmptyMap]]
    ELSE IF event.type = "next"
    THEN [response |-> "IterationNodeNextStreamResponse",
          task_id |-> task_id,
          workflow_run_id |-> workflow_run_id,
          data |-> [id |-> event.node_id, node_id |-> event.node_id,
                    index |-> event.index, output |-> event.output,
                    created_at |-> now, extras |-> EmptyMap]]
    ELSE [response |-> "IterationNodeCompletedStreamResponse",
          task_id |-> task_id,
          workflow_run_id |-> workflow_run_id,
          data |-> [id |-> event.node_id, node_id |-> event.node_id,
                    outputs |-> event.outputs,
                    created_at |-> now, extras |-> EmptyMap]]

\* mutant: the translator builds the table before it answers
HandleIterationToStreamResponse_InitState(task_id, event, now) ==
    /\ call' = [op |-> "to_stream_response", event |-> event, task_id |-> task_id] @@
               Returned("unused",
                        Some(ToStreamResponse(task_id, task_state.workflow_run_id,
                                              event, now)))
    /\ iteration_state' = InitIterationState(iteration_state)
    /\ UNCHANGED <<executions, created, task_state, perf_counter, handled,
                   started, passed, pc>>

\* the translator is called, whatever the handlers are doing
HandleIterationToStreamResponse(task_id, event, now) ==
    /\ call' = [op |-> "to_stream_response", event |-> event, task_id |-> task_id] @@
               Returned("unused",
                        Some(ToStreamResponse(task_id, task_state.workflow_run_id,
                                              event, now)))
    /\ UNCHANGED <<iteration_state, executions, created, task_state, perf_counter, handled,
                   started, passed, pc>>

----------------------------------------------------------------------------
(* The handlers, one statement at a time *)

\* _handle_iteration_operation is entered with the next event of the queue
EnterHandler(event) ==
    /\ pc.step \in {"idle", "left"}
    /\ handled < MaxEvents
    /\ handled' = handled + 1
    /\ pc' = [step |-> "entered", event |-> event]
    /\ passed' = IF event.type = "next" /\ event.node_id \in started
                 THEN [passed EXCEPT ![event.node_id] = Append(@, event.node_run_index)]
                 ELSE passed
    /\ UNCHANGED <<iteration_state, executions, created, task_state, perf_counter, call,
                   started>>

\* the handler in progress goes on to the statement step
GoTo(step) == pc' = [pc EXCEPT !.step = step]

\* the handler in progress raises or returns
Leave(op, outcome) ==
    /\ pc' = [pc EXCEPT !.step = "left"]
    /\ call' = [op |-> op, event |-> pc.event] @@ outcome

\* the next statement of _handle_iteration_started
StartedStep ==
    /\ pc.step \notin {"idle", "left"}
    /\ pc.event.type = "start"
    /\ LET node_id == pc.event.node_id IN
       IF pc.step = "entered"
       THEN \* self._init_iteration_state()
            /\ iteration_state' = InitIterationState(iteration_state)
            /\ GoTo("initialized")
            /\ UNCHANGED <<executions, created, task_state, call, started, passed>>
       ELSE IF pc.step = "initialized"
       THEN \* the run is queried and the row is built and committed
            /\ executions' = SetItem(executions, created + 1,
                                     NewExecution(WorkflowRun, node_id,
                                                  pc.event.node_run_index))
            /\ created' = created + 1
            /\ GoTo("created")
            /\ UNCHANGED <<iteration_state, task_state, call, started, passed>>
       ELSE IF pc.step = "created"
       THEN \* the execution info is recorded in the task state
            /\ task_state' = StartedTaskState(task_state, node_id, created, perf_counter, TRUE)
            /\ GoTo("recorded")
            /\ UNCHANGED <<iteration_state, executions, created, call, started, passed>>
       ELSE \* the entry is inserted and the row is returned
            /\ iteration_state' =
                  StartedTable(iteration_state, node_id, created, perf_counter, TRUE)
            /\ Leave("started", Returned("ok", Some(created)))
            /\ started' = started \cup {node_id}
            /\ passed' = [passed EXCEPT ![node_id] = << >>]
            /\ UNCHANGED <<executions, created, task_state>>
    /\ UNCHANGED <<perf_counter, handled>>

\* the next statement of _handle_iteration_next
NextStep ==
    /\ pc.step \notin {"idle", "left"}
    /\ pc.event.type = "next"
    /\ LET node_id == pc.event.node_id IN
       IF pc.step = "entered"
       THEN \* the test of event.node_id
            /\ IF ~iteration_state.is_set
               THEN Leave("next", Raised("unused", "AttributeError"))
               ELSE IF ~InCurrentIterations(iteration_state, node_id)
               THEN Leave("next", Returned("unused", Absent))
               ELSE GoTo("checked") /\ UNCHANGED call
            /\ UNCHANGED <<iteration_state, executions>>
       ELSE IF pc.step = "checked"
       THEN \* current_index and iteration_steps_boundary are updated
            /\ iteration_state' =
                  [iteration_state EXCEPT !.current_iterations[node_id] =
                      NextIteration(@, pc.event)]
            /\ GoTo("updated")
            /\ UNCHANGED <<executions, call>>
       ELSE \* the row is fetched, its metadata written and committed
            /\ executions' =
                  [executions EXCEPT ![Entry(node_id).node_execution_id].execution_metadata =
                      NextMetadata(pc.event, Entry(node_id))]
            /\ Leave("next", Returned("ok", Absent))
            /\ UNCHANGED iteration_state
    /\ UNCHANGED <<created, task_state, perf_counter, handled, started, passed>>

\* the next statement of _handle_iteration_completed
CompletedStep ==
    /\ pc.step \notin {"idle", "left"}
    /\ pc.event.type = "completed"
    /\ LET node_id == pc.event.node_id IN
       IF pc.step = "entered"
       THEN \* the test of event.node_id
            /\ IF ~iteration_state.is_set
               THEN Leave("completed", Raised("unused", "AttributeError"))
               ELSE IF ~InCurrentIterations(iteration_state, node_id)
               THEN Leave("completed", Returned("unused", Absent))
               ELSE GoTo("checked") /\ UNCHANGED call
            /\ UNCHANGED <<iteration_state, executions, started, passed>>
       ELSE IF pc.step = "checked"
       THEN \* the row is fetched, finalized and committed
            /\ executions' =
                  [executions EXCEPT ![Entry(node_id).node_execution_id] =
                      CompletedExecution(@, pc.event, Entry(node_id), perf_counter)]
            /\ GoTo("committed")
            /\ UNCHANGED <<iteration_state, call, started, passed>>
       ELSE \* the entry is removed
            /\ iteration_state' = CompletedTable(iteration_state, node_id, TRUE)
            /\ Leave("completed", Returned("ok", Absent))
            /\ started' = started \ {node_id}
            /\ passed' = [passed EXCEPT ![node_id] = << >>]
            /\ UNCHANGED executions
    /\ UNCHANGED <<created, task_state, perf_counter, handled>>

----------------------------------------------------------------------------
(* The environment *)

\* time passes
Tick ==
    /\ perf_counter < MaxClock
    /\ perf_counter' = perf_counter + 1
    /\ UNCHANGED <<iteration_state, executions, created, task_state, call, handled,
                   started, passed, pc>>

\* a row is deleted by the owner of the workflow records
DeleteExecution(id) ==
    /\ id \in DOMAIN executions
    /\ executions' = Pop(executions, id)
    /\ UNCHANGED <<iteration_state, created, task_state, perf_counter, call, handled,
                   started, passed, pc>>

----------------------------------------------------------------------------

Init ==
    /\ iteration_state = NoIterationState
    /\ executions = EmptyMap
    /\ created = 0
    /\ task_state = [workflow_run_id |-> WorkflowRun.id,
                     ran_node_execution_infos |-> EmptyMap,
                     latest_node_execution_info |-> Absent]
    /\ perf_counter = 0
    /\ call = [op |-> "init", event |-> Absent] @@ Returned("unused", Absent)
    /\ handled = 0
    /\ started = {}
    /\ passed = [n \in NodeIds |-> << >>]
    /\ pc = Idle

Next ==
    \/ \E event \in QueueIterationStartEvent, fault \in StartFaults :
          HandleIterationStarted(event, fault)
    \/ \E event \in QueueIterationNextEvent, fault \in UpdateFaults :
          HandleIterationNext(event, fault)
    \/ \E event \in QueueIterationCompletedEvent, fault \in UpdateFaults :
          HandleIterationCompleted(event, fault)
    \/ Tick
    \/ \E id \in DOMAIN executions : DeleteExecution(id)

Spec == Init /\ [][Next]_vars

\* the handlers run one statement at a time, without failures of the storage,
\* and the translator is called for the event of the handler at any point
\* between its statements and after it
NextStream ==
    \/ \E event \in QueueIterationStartEvent \cup QueueIterationNextEvent
                    \cup QueueIterationCompletedEvent :
          EnterHandler(event)
    \/ StartedStep
    \/ NextStep
    \/ CompletedStep
    \/ \E task_id \in TaskIds, now \in Timestamps :
          /\ pc.step # "idle"
          /\ HandleIterationToStreamResponse(task_id, pc.event, now)

SpecStream == Init /\ [][NextStream]_vars

----------------------------------------------------------------------------
(* Properties *)

\* the step is the handling of an event of one of the kinds ops
Handles(ops) == handled' # handled /\ call'.op \in ops

\* C1: the table holds an entry for a loop id if and only if a start event for
\* it has been processed and no completed event for it has been processed
\* after that start.
C1_EntryIffStartedNotCompleted ==
    CurrentIds = started

\* a completed event has removed the entry of one id while another id has one
C1_Witness ==
    /\ call.op = "completed"
    /\ call.session = "ok"
    /\ call.event.node_id \notin CurrentIds
    /\ CurrentIds # {}

\* C2: once the table is built, a next or completed event for a loop id that is
\* not in it returns without raising, writes no row and leaves every entry (and
\* the task state) as it was.
C2_AbsentIdIsNoOp ==
    [][(/\ Handles({"next", "completed"})
        /\ iteration_state.is_set
        /\ call'.event.node_id \notin CurrentIds)
       => (/\ call'.raised = Absent
           /\ executions' = executions
           /\ created' = created
           /\ iteration_state' = iteration_state
           /\ task_state' = task_state)]_vars

\* a next event was dropped for an id whose loop has been completed before
C2_Witness ==
    /\ call.op = "next"
    /\ call.raised = Absent
    /\ call.session = "unused"
    /\ call.event.node_id \notin CurrentIds
    /\ \E id \in DOMAIN executions :
          /\ executions[id].node_id = call.event.node_id
          /\ executions[id].status = SUCCEEDED

\* C3: a next or completed event for a loop id that is not in the table raises
\* no error and changes nothing, in every state, the state before the first
\* start event included.
C3_UnknownIdNeverRaises ==
    [][(/\ Handles({"next", "completed"})
        /\ call'.event.node_id \notin CurrentIds)
       => (/\ call'.raised = Absent
           /\ executions' = executions
           /\ created' = created
           /\ iteration_state' = iteration_state
           /\ task_state' = task_state)]_vars

\* C4: a completed event for an id in the table whose row exists, with no
\* failure of the storage, returns and leaves the row of the entry SUCCEEDED,
\* with outputs {output: <outputs of the event>} and elapsed time the current
\* perf_counter minus the entry's started_at, which is >= 0, and the id is no
\* longer in the table.
C4_CompletedFinalizes ==
    [][(/\ Handles({"completed"})
        /\ call'.event.node_id \in CurrentIds
        /\ Entry(call'.event.node_id).node_execution_id \in DOMAIN executions
        /\ call'.session # "error")
       => LET entry == Entry(call'.event.node_id)
              id == entry.node_execution_id
          IN  /\ call'.raised = Absent
              /\ id \in DOMAIN executions'
              /\ executions'[id].status = SUCCEEDED
              /\ executions'[id].outputs = Some([output |-> call'.event.outputs])
              /\ executions'[id].elapsed_time = Some(perf_counter - entry.started_at)
              /\ perf_counter - entry.started_at >= 0
              /\ call'.event.node_id \notin CurrentIds']_vars

\* a loop was completed one tick after its start
C4_Witness ==
    /\ call.op = "completed"
    /\ call.session = "ok"
    /\ call.event.node_id \notin CurrentIds
    /\ \E id \in DOMAIN executions :
          /\ executions[id].node_id = call.event.node_id
          /\ executions[id].status = SUCCEEDED
          /\ executions[id].outputs = Some([output |-> call.event.outputs])
          /\ executions[id].elapsed_time = Some(1)

\* C5: after a next event (index i, run index r) for an id in the table that
\* is written to the row of the entry, the metadata of the row is exactly
\* {started_run_index: r + 1, current_index: i, steps_boundary: the run
\* indices of all the next events since the entry was created, in order}.
C5_NextOverwritesMetadata ==
    [][(/\ Handles({"next"})
        /\ call'.event.node_id \in CurrentIds
        /\ call'.session = "ok")
       => LET event == call'.event
              id == Entry(event.node_id).node_execution_id
          IN  /\ id \in DOMAIN executions'
              /\ executions'[id].execution_metadata =
                    [started_run_index |-> event.node_run_index + 1,
                     current_index |-> event.index,
                     steps_boundary |-> passed'[event.node_id]]]_vars

\* the second next event of a loop was written, with another run index than
\* the first
C5_Witness ==
    /\ call.op = "next"
    /\ call.session = "ok"
    /\ call.event.node_id \in CurrentIds
    /\ LET node_id == call.event.node_id
           id == Entry(node_id).node_execution_id
       IN  /\ Len(passed[node_id]) = 2
           /\ passed[node_id][1] # passed[node_id][2]
           /\ executions[id].execution_metadata.steps_boundary = passed[node_id]
           /\ executions[id].execution_metadata.current_index = 1

\* C6: the iteration_steps_boundary of an entry is the sequence of the run
\* indices of the next events passed in for its id since the entry was
\* created, in the order of arrival (so its length is their number), and a
\* step only ever appends to the sequence of an entry.
C6_BoundaryIsNextHistory ==
    /\ [](\A node_id \in CurrentIds :
             Entry(node_id).iteration_steps_boundary = passed[node_id])
    /\ [][\A node_id \in CurrentIds \cap CurrentIds' :
             LET old == Entry(node_id)
                 new == iteration_state'.current_iterations[node_id]
             IN  new.node_execution_id = old.node_execution_id
                 => \/ new.iteration_steps_boundary = old.iteration_steps_boundary
                    \/ \E r \in RunIndices :
                          new.iteration_steps_boundary =
                             Append(old.iteration_steps_boundary, r)]_vars

\* an entry has seen two next events, with run indices 2 then 1
C6_Witness ==
    \E node_id \in CurrentIds :
       /\ Entry(node_id).iteration_steps_boundary = <<2, 1>>
       /\ call.op = "next"
       /\ call.event.node_id = node_id

\* C7: a start event for id X with run index r, when the workflow run is found
\* and the storage does not fail, adds exactly one row, RUNNING and with
\* metadata {started_run_index: r + 1, current_index: 0, steps_boundary: []},
\* leaves the other rows as they were, leaves X in the table with
\* current_index 0, an empty boundary and the id of the new row, and returns
\* the new row.
C7_StartCreatesRowAndEntry ==
    [][(/\ Handles({"started"})
        /\ call'.session = "ok")
       => LET event == call'.event
          IN  /\ call'.raised = Absent
              /\ \E new \in (DOMAIN executions') \ (DOMAIN executions) :
                    /\ DOMAIN executions' = (DOMAIN executions) \cup {new}
                    /\ \A old \in DOMAIN executions : executions'[old] = executions[old]
                    /\ executions'[new].status = RUNNING
                    /\ executions'[new].node_id = event.node_id
                    /\ executions'[new].execution_metadata =
                          [started_run_index |-> event.node_run_index + 1,
                           current_index |-> 0,
                           steps_boundary |-> << >>]
                    /\ event.node_id \in CurrentIds'
                    /\ LET entry == iteration_state'.current_iterations[event.node_id]
                       IN  /\ entry.current_index = 0
                           /\ entry.iteration_steps_boundary = << >>
                           /\ entry.node_execution_id = new
                    /\ call'.returned = Some(new)]_vars

\* a second start event, with run index 2, has created the second row
C7_Witness ==
    /\ call.op = "started"
    /\ call.session = "ok"
    /\ call.event.node_run_index = 2
    /\ call.returned = Some(2)
    /\ 2 \in DOMAIN executions
    /\ executions[2].execution_metadata.started_run_index = 3
    /\ Entry(call.event.node_id).node_execution_id = 2

\* C8: when an operation of the storage raises during start handling, the
\* handler raises and the table has the entries it had; when one raises
\* during completed handling, the handler raises and the entry of the id is
\* still in the table, as it was.
C8_StorageFailureKeepsTable ==
    [][(/\ Handles({"started", "completed"})
        /\ call'.session = "error")
       => LET node_id == call'.event.node_id
          IN  /\ call'.raised # Absent
              /\ call'.op = "started" =>
                    iteration_state'.current_iterations =
                       iteration_state.current_iterations
              /\ call'.op = "completed" =>
                    /\ node_id \in CurrentIds
                    /\ node_id \in CurrentIds'
                    /\ iteration_state'.current_iterations[node_id] = Entry(node_id)]_vars

\* the storage failed during a completed event of a running loop, after it had
\* failed during a start event (whose row has no execution info)
C8_Witness ==
    /\ call.op = "completed"
    /\ call.session = "error"
    /\ call.event.node_id \in CurrentIds
    /\ \E id \in DOMAIN executions :
          /\ executions[id].node_id \notin DOMAIN task_state.ran_node_execution_infos
          /\ executions[id].node_id \notin CurrentIds

\* C9: when an operation of the storage raises during next handling for an id
\* in the table, the handler raises and the entry's current_index and
\* iteration_steps_boundary are as before the event.
C9_NextFailureLeavesEntry ==
    [][(/\ Handles({"next"})
        /\ call'.event.node_id \in CurrentIds
        /\ call'.session = "error")
       => LET node_id == call'.event.node_id
              new == iteration_state'.current_iterations[node_id]
          IN  /\ call'.raised # Absent
              /\ new.current_index = Entry(node_id).current_index
              /\ new.iteration_steps_boundary = Entry(node_id).iteration_steps_boundary]_vars

\* C10: when the workflow run is not found, start handling raises, and the
\* rows, the entries of the table and the task state are as before the event.
C10_RunNotFoundCreatesNothing ==
    [][(/\ Handles({"started"})
        /\ call'.session = "run_not_found")
       => (/\ call'.raised # Absent
           /\ executions' = executions
           /\ created' = created
           /\ iteration_state'.current_iterations = iteration_state.current_iterations
           /\ task_state' = task_state)]_vars

\* the run was not found for a start event of an id that is already running
C10_Witness ==
    /\ call.op = "started"
    /\ call.session = "run_not_found"
    /\ call.event.node_id \in CurrentIds
    /\ DOMAIN executions # {}

\* C11: a completed event for an id in the table whose row is not found
\* raises, modifies no row and leaves the entry of the id in the table as it
\* was.
C11_MissingRowRaises ==
    [][(/\ Handles({"completed"})
        /\ call'.event.node_id \in CurrentIds
        /\ Entry(call'.event.node_id).node_execution_id \notin DOMAIN executions)
       => LET node_id == call'.event.node_id
          IN  /\ call'.raised # Absent
              /\ executions' = executions
              /\ node_id \in CurrentIds'
              /\ iteration_state'.current_iterations[node_id] = Entry(node_id)]_vars

\* the row of a running loop was not found by a completed event
C11_Witness ==
    /\ call.op = "completed"
    /\ call.session = "not_found"
    /\ call.raised = Some("AttributeError")
    /\ call.event.node_id \in CurrentIds
    /\ Entry(call.event.node_id).node_execution_id \notin DOMAIN executions

\* the step is a call of the translator
Translates == call' # call /\ call'.op = "to_stream_response"

\* C12: a call of the translator, in any state and at any point between the
\* statements of a handler, leaves the table, the rows, the task state and the
\* handler in progress as they are, and the loop id and the payload of the
\* response are those of the event, whether or not its id is in the table.
C12_TranslatorHasNoEffect ==
    [][Translates
       => LET event == call'.event
              data == call'.returned[1].data
          IN  /\ iteration_state' = iteration_state
              /\ executions' = executions
              /\ created' = created
              /\ task_state' = task_state
              /\ pc' = pc
              /\ handled' = handled
              /\ data.id = event.node_id
              /\ data.node_id = event.node_id
              /\ event.type = "next" =>
                    data.index = event.index /\ data.output = event.output
              /\ event.type = "completed" => data.outputs = event.outputs]_vars

\* the translator was called for a completed event between the commit of the
\* row and the removal of the entry
C12_Witness ==
    /\ pc.step = "committed"
    /\ call.op = "to_stream_response"
    /\ call.event = pc.event
    /\ call.event.node_id \in CurrentIds
    /\ executions[Entry(call.event.node_id).node_execution_id].status = SUCCEEDED

\* C13: for a start, next or completed event the translator does not raise
\* and returns the response of the same kind, with the task id given and the
\* workflow run id of the task state: the start response carries the loop id,
\* the next response the loop id, the index and the output, the completed
\* response the loop id and the outputs.
C13_TranslatorMatchesEvent ==
    [][Translates
       => LET event == call'.event
              response == call'.returned[1]
          IN  /\ call'.raised = Absent
              /\ Len(call'.returned) = 1
              /\ response.task_id = call'.task_id
              /\ response.workflow_run_id = task_state.workflow_run_id
              /\ response.data.id = event.node_id
              /\ event.type = "start" =>
                    /\ response.response = "IterationNodeStartStreamResponse"
                    /\ DOMAIN response.data = {"id", "node_id", "created_at", "extras"}
              /\ event.type = "next" =>
                    /\ response.response = "IterationNodeNextStreamResponse"
                    /\ response.data.index = event.index
                    /\ response.data.output = event.output
              /\ event.type = "completed" =>
                    /\ response.response = "IterationNodeCompletedStreamResponse"
                    /\ response.data.outputs = event.outputs]_vars

\* the translator has answered a next event of index 1 for the second task
C13_Witness ==
    /\ call.op = "to_stream_response"
    /\ call.task_id = "task2"
    /\ call.event.type = "next"
    /\ call.event.index = 1
    /\ call.returned[1].response = "IterationNodeNextStreamResponse"
    /\ call.returned[1].task_id = "task2"
    /\ call.returned[1].data.index = 1

\* C14: for as long as the entry of a loop id is in the table (the entry the
\* start event has made: same row, same start time) its current_index never
\* decreases from one state to the next.
C14_CurrentIndexNeverDecreases ==
    [][\A node_id \in CurrentIds \cap CurrentIds' :
          LET before == Entry(node_id)
              after == iteration_state'.current_iterations[node_id]
          IN  (/\ after.node_execution_id = before.node_execution_id
               /\ after.started_at = before.started_at)
              => after.current_index >= before.current_index]_vars

\* C15: the node_execution_id and the started_at of the entry of a loop id
\* are not changed by any event while an entry of the id is in the table.
C15_RowAndStartNeverChange ==
    [][\A node_id \in CurrentIds \cap CurrentIds' :
          LET before == Entry(node_id)
              after == iteration_state'.current_iterations[node_id]
          IN  /\ after.node_execution_id = before.node_execution_id
              /\ after.started_at = before.started_at]_vars

\* C15 (amended): no next and no completed event changes the
\* node_execution_id or the started_at of an entry; they change only when a
\* start event for the same id is handled to its end, which replaces them by
\* the id of the row it has created and by the time of that start.
C15_OnlyStartReplacesRowAndStart ==
    [][\A node_id \in CurrentIds \cap CurrentIds' :
          LET before == Entry(node_id)
              after == iteration_state'.current_iterations[node_id]
          IN  (\/ after.node_execution_id # before.node_execution_id
               \/ after.started_at # before.started_at)
              => /\ Handles({"started"})
                 /\ call'.event.node_id = node_id
                 /\ call'.session = "ok"
                 /\ after.node_execution_id = created'
                 /\ after.node_execution_id \notin DOMAIN executions
                 /\ after.started_at = perf_counter]_vars

\* a next event was written for an entry that a second start event had bound
\* to the second row
C15_Witness ==
    /\ call.op = "next"
    /\ call.session = "ok"
    /\ call.event.node_id \in CurrentIds
    /\ Entry(call.event.node_id).node_execution_id = 2
    /\ DOMAIN executions = {1, 2}
    /\ executions[1].node_id = call.event.node_id
    /\ executions[2].execution_metadata.steps_boundary # << >>

\* C16: a start event for a loop id that is in the table raises only what
\* storage raises; with storage working it returns, creates one more row in
\* RUNNING status under a new id, puts a fresh entry (current_index 0, empty
\* boundary, node_execution_id of the new row) in the place of the old one, and
\* writes no row that was there before, the row of the old entry included.
C16_DuplicateStartSupersedes ==
    [][(/\ Handles({"started"})
        /\ call'.event.node_id \in CurrentIds)
       => LET node_id == call'.event.node_id
              first == Entry(node_id).node_execution_id
              second == created'
              after == iteration_state'.current_iterations[node_id]
          IN  /\ call'.raised # Absent => call'.session \in {"error", "run_not_found"}
              /\ call'.session = "ok" =>
                    /\ call'.raised = Absent
                    /\ second # first
                    /\ second \notin DOMAIN executions
                    /\ DOMAIN executions' = DOMAIN executions \cup {second}
                    /\ executions'[second].status = RUNNING
                    /\ executions'[second].node_id = node_id
                    /\ \A id \in DOMAIN executions : executions'[id] = executions[id]
                    /\ after.current_index = 0
                    /\ after.iteration_steps_boundary = << >>
                    /\ after.node_execution_id = second]_vars

\* a second start event has put a fresh entry in the place of one that had
\* passed a next event; the first row keeps the metadata of that next event
C16_Witness ==
    /\ call.op = "started"
    /\ call.session = "ok"
    /\ created = 2
    /\ DOMAIN executions = {1, 2}
    /\ executions[1].node_id = call.event.node_id
    /\ executions[1].status = RUNNING
    /\ executions[1].execution_metadata.steps_boundary # << >>
    /\ executions[2].status = RUNNING
    /\ Entry(call.event.node_id).node_execution_id = 2
    /\ Entry(call.event.node_id).iteration_steps_boundary = << >>

\* C17: once a completed event for a loop id has been handled to its end,
\* every row created for that id has status SUCCEEDED, outputs and elapsed
\* time; and no row created for a loop id is RUNNING while the id is not in
\* the table.
C17_EveryRowFinalized ==
    /\ (call.op = "completed" /\ call.session = "ok")
       => \A id \in DOMAIN executions :
             executions[id].node_id = call.event.node_id
             => /\ executions[id].status = SUCCEEDED
                /\ executions[id].outputs # Absent
                /\ executions[id].elapsed_time # Absent
    /\ \A id \in DOMAIN executions :
          executions[id].status = RUNNING => executions[id].node_id \in CurrentIds

\* C18: the handling of a start, next or completed event for a loop id leaves
\* every other loop id as it was: in or out of the table, with the same entry
\* and with the same rows; the table initialization of a start event removes
\* and resets no entry.
C18_EntriesAreIndependent ==
    [][Handles({"started", "next", "completed"})
       => LET node_id == call'.event.node_id
          IN  /\ \A other \in NodeIds \ {node_id} :
                    /\ other \in CurrentIds' <=> other \in CurrentIds
                    /\ other \in CurrentIds
                       => iteration_state'.current_iterations[other] = Entry(other)
              /\ \A id \in DOMAIN executions :
                    executions[id].node_id # node_id
                    => /\ id \in DOMAIN executions'
                       /\ executions'[id] = executions[id]
              /\ \A id \in DOMAIN executions' \ DOMAIN executions :
                    executions'[id].node_id = node_id]_vars

\* a start event for one id was handled to its end while another id had an
\* entry that had passed a next event, and that entry is still there
C18_Witness ==
    /\ call.op = "started"
    /\ call.session = "ok"
    /\ \E other \in CurrentIds \ {call.event.node_id} :
          /\ Entry(other).iteration_steps_boundary # << >>
          /\ Entry(other).node_execution_id \in DOMAIN executions
          /\ executions[Entry(other).node_execution_id].execution_metadata.steps_boundary
                = Entry(other).iteration_steps_boundary

\* C19: with the events handled one at a time, in any order and with any
\* repetition, no handler writes a row that has reached SUCCEEDED: the row
\* stays, with its status, outputs, elapsed time and metadata.
C19_SucceededRowIsFinal ==
    [][Handles({"started", "next", "completed"})
       => \A id \in DOMAIN executions :
             executions[id].status = SUCCEEDED
             => /\ id \in DOMAIN executions'
                /\ executions'[id] = executions[id]]_vars

\* a second completed event for a loop id came after the first had finalized
\* the row and removed the entry, and was dropped
C19_Witness ==
    /\ call.op = "completed"
    /\ call.session = "unused"
    /\ call.raised = Absent
    /\ call.event.node_id \notin CurrentIds
    /\ \E id \in DOMAIN executions :
          /\ executions[id].node_id = call.event.node_id
          /\ executions[id].status = SUCCEEDED
          /\ executions[id].outputs # Absent

\* no row was deleted from outside
NoneDeleted == DOMAIN executions = 1..created

\* C20: as long as no row was deleted from outside, the node_execution_id of
\* every entry is the id of a row in RUNNING status, no two entries have the
\* same node_execution_id, and no next or completed event has found its row
\* missing.
C20_EntriesReferenceRunningRows ==
    NoneDeleted
    => /\ \A node_id \in CurrentIds :
             /\ Entry(node_id).node_execution_id \in DOMAIN executions
             /\ executions[Entry(node_id).node_execution_id].status = RUNNING
             /\ executions[Entry(node_id).node_execution_id].node_id = node_id
       /\ \A node_id \in CurrentIds : \A other \in CurrentIds \ {node_id} :
             Entry(node_id).node_execution_id # Entry(other).node_execution_id
       /\ call.session # "not_found"

\* with no row deleted, both loop ids have an entry and a next event was
\* written to the row of one of them
C20_Witness ==
    /\ NoneDeleted
    /\ CurrentIds = NodeIds
    /\ call.op = "next"
    /\ call.session = "ok"
    /\ Entry(call.event.node_id).iteration_steps_boundary # << >>

\* C21: between the handling of two events, the row of every entry in the
\* table (where the row is there) has in its metadata the current_index and,
\* as steps_boundary, the iteration_steps_boundary of the entry.
C21_EntryAgreesWithRow ==
    \A node_id \in CurrentIds :
       LET id == Entry(node_id).node_execution_id
       IN  id \in DOMAIN executions
           => /\ executions[id].execution_metadata.current_index
                    = Entry(node_id).current_index
              /\ executions[id].execution_metadata.steps_boundary
                    = Entry(node_id).iteration_steps_boundary

====
